---------------------------- MODULE Spec2Model ----------------------------
(***************************************************************************)
(* A model of aospy/utils.py: the pressure-unit heuristic (to_pascal), the *)
(* vertical-coordinate formulas (level_thickness, phalf_from_pfull,        *)
(* pfull_from_phalf, dp_from_phalf, dp_from_p) and the attribute lookup    *)
(* along the parent/var/run/model/proj relations (get_parent_attr).        *)
(*                                                                         *)
(* Numbers.  The source computes on floating point arrays.  Every number   *)
(* of the model is held as an integer count of quarters of the source's    *)
(* unit (Fx(v) = 4*v), so that 1013.25 hPa is the integer 4053 and the     *)
(* two successive halvings 0.5*(...) of the half/full level formulas are   *)
(* exact on every whole-valued input.  Rounding of IEEE doubles is not     *)
(* modelled.                                                               *)
(*                                                                         *)
(* Arrays.  A 1-D array, and a 3-D array (level, lat, lon) with a single   *)
(* lat/lon point, is the sequence of its values along the first axis.  A   *)
(* 4-D array (time, level, lat, lon) with a single lat/lon point is the    *)
(* sequence over time of the sequences over level.  The surface pressure   *)
(* ps (time, lat, lon) is the sequence of its values over time.  Shapes    *)
(* are sequences of axis lengths.                                          *)
(***************************************************************************)
EXTENDS Integers, Sequences, FiniteSets, TLC

VARIABLES
    field,      \* the caller's pressure array p (to_pascal changes it in place)
    op,         \* the function called last
    arg,        \* the arguments of that call, as they were before the call
    out,        \* what that call returned or raised
    frame,      \* dp_from_p's locals p, ps and dp as line 290 reads them
    links,      \* the objects' relation attributes: (object, relation) -> object
    attrs,      \* each object's own value of the attribute looked up
    start,      \* get_parent_attr: the obj the caller passed
    strict,     \* get_parent_attr: the strict flag of the call
    pc,         \* get_parent_attr: "idle", "call" (a frame is running), "done"
    cur,        \* get_parent_attr: the obj of the running frame
    calls,      \* get_parent_attr: frames entered by the call so far
    result      \* get_parent_attr: what the call returned or raised

numvars  == <<field, op, arg, out, frame>>
attrvars == <<links, attrs, start, strict, pc, cur, calls, result>>
vars     == <<field, op, arg, out, frame,
              links, attrs, start, strict, pc, cur, calls, result>>

-----------------------------------------------------------------------------
(* Bounds of the model *)

MaxLev == 3         \* longest level array
MaxPts == 2         \* most time points of the surface pressure
MaxLinks == 2       \* most relation attributes set in the object graph
RecursionLimit == 5 \* frames the interpreter allows (sys.getrecursionlimit())

(* Program constants *)

PaThreshold == 1200     \* to_pascal: "< 1200." means hPa
HPaToPa == 100          \* to_pascal: field *= 100.
BottomEdgePa == 110000  \* dp_from_p: p_bot = 1.1e5
TopEdgePa == 0          \* dp_from_p: p_top = 0

-----------------------------------------------------------------------------
(* Fixed point numbers: quarters of the source's unit *)

Scale == 2 * 2
Fx(v) == v * Scale

\* 0.5 * x
Half(x) == x \div 2

\* np.abs, np.sign
Abs(x) == IF x < 0 THEN -x ELSE x
Sign(x) == IF x > 0 THEN 1 ELSE IF x < 0 THEN -1 ELSE 0

\* np.max(np.abs(a)) of a non-empty array
RECURSIVE MaxAbs(_)
MaxAbs(a) ==
    IF Len(a) = 1 THEN Abs(a[1])
    ELSE LET m == MaxAbs(Tail(a))
         IN  IF Abs(a[1]) > m THEN Abs(a[1]) ELSE m

RECURSIVE SumSeq(_)
SumSeq(a) == IF a = <<>> THEN 0 ELSE a[1] + SumSeq(Tail(a))

-----------------------------------------------------------------------------
(* The numeric functions *)

to_pascal_always(a) ==
    [i \in DOMAIN a |-> a[i] * HPaToPa]

to_pascal(a) ==
    IF MaxAbs(a) < Fx(PaThreshold)
      THEN [i \in DOMAIN a |-> a[i] * HPaToPa]
      ELSE a

level_thickness_top_diff(p) ==
    LET q == to_pascal(p)
        n == Len(q)
    IN  <<Half(q[1] - q[2])>>
          \o [k \in 1..(n - 2) |-> Half(q[k] - q[k + 2])]
          \o <<Half(q[n - 1] - q[n])>>

\* p has at least two elements (p[1] exists)
level_thickness(p) ==
    LET q == to_pascal(p)
        n == Len(q)
    IN  <<Half(q[1] - q[2])>>
          \o [k \in 1..(n - 2) |-> Half(q[k] - q[k + 2])]
          \o <<Half(q[n - 1] + q[n])>>

\* phalf[1:] and phalf[:-1] along the first axis
From1(a) == [k \in 1..(Len(a) - 1) |-> a[k + 1]]
ButLast(a) == [k \in 1..(Len(a) - 1) |-> a[k]]

\* An array is [ndim, a]; for ndim = 4 the first axis of a is time and the
\* second is the level, otherwise the first axis is the level.
Arr(nd, a) == [ndim |-> nd, a |-> a]

pfull_from_phalf_no_half(phalf) ==
    IF phalf.ndim = 4
      THEN Arr(4, [t \in DOMAIN phalf.a |->
                    [k \in 1..(Len(phalf.a[t]) - 1) |->
                        phalf.a[t][k + 1] + phalf.a[t][k]]])
      ELSE Arr(phalf.ndim, [k \in 1..(Len(phalf.a) - 1) |->
                              From1(phalf.a)[k] + ButLast(phalf.a)[k]])

pfull_from_phalf(phalf) ==
    IF phalf.ndim = 4
      THEN Arr(4, [t \in DOMAIN phalf.a |->
                    [k \in 1..(Len(phalf.a[t]) - 1) |->
                        Half(phalf.a[t][k + 1] + phalf.a[t][k])]])
      ELSE Arr(phalf.ndim, [k \in 1..(Len(phalf.a) - 1) |->
                              Half(From1(phalf.a)[k] + ButLast(phalf.a)[k])])

\* pfull is 3-D (level, lat, lon); the result is np.empty((n + 1, ., .)) filled
phalf_from_pfull(pfull, val_toa, val_sfc) ==
    LET n == Len(pfull.a)
    IN  Arr(3, [k \in 1..(n + 1) |->
                  IF k = n + 1 THEN val_sfc        \* phalf[-1] = val_sfc
                  ELSE IF k = 1 THEN val_toa       \* phalf[0] = val_toa
                  ELSE Half(pfull.a[k - 1] + pfull.a[k])])

dp_from_phalf_axis0(phalf) ==
    Arr(phalf.ndim, [k \in 1..(Len(phalf.a) - 1) |->
        IF phalf.ndim = 4
          THEN [l \in DOMAIN phalf.a[k] |-> phalf.a[k + 1][l] - phalf.a[k][l]]
          ELSE phalf.a[k + 1] - phalf.a[k]])

dp_from_phalf(phalf) ==
    IF phalf.ndim = 4
      THEN Arr(4, [t \in DOMAIN phalf.a |->
                    [k \in 1..(Len(phalf.a[t]) - 1) |->
                        phalf.a[t][k + 1] - phalf.a[t][k]]])
      ELSE Arr(phalf.ndim, [k \in 1..(Len(phalf.a) - 1) |->
                              From1(phalf.a)[k] - ButLast(phalf.a)[k]])

-----------------------------------------------------------------------------
(* Shapes, for dp_from_p *)

\* a[np.newaxis, :, np.newaxis, np.newaxis]: a new axis, the first axis of a,
\* two new axes, then the axes of a that the index does not name
IndexNewSliceNewNew(s) == <<1, s[1], 1, 1>> \o Tail(s)

\* a[:, np.newaxis, :, :] of a 3-D array
IndexSliceNewSliceSlice(s) == <<s[1], 1, s[2], s[3]>>

\* numpy broadcasting of two compatible shapes (aligned at the last axis)
Broadcast(s, t) ==
    LET n == IF Len(s) > Len(t) THEN Len(s) ELSE Len(t)
        pad(u) == [i \in 1..n |-> IF i <= n - Len(u) THEN 1
                                  ELSE u[i - (n - Len(u))]]
    IN  [i \in 1..n |-> IF pad(s)[i] = 1 THEN pad(t)[i] ELSE pad(s)[i]]

\* np.ma.masked_where(condition, a): whether it raises IndexError.  cond =
\* make_mask(condition) keeps the condition's shape, except that a numpy whose
\* make_mask shrinks (shrink) turns a condition with no True into nomask, of
\* shape ().  It raises when cond.shape is not () and differs from a.shape.
masked_where_raises(cond_shape, cond_any, a_shape, shrink) ==
    LET cshape == IF shrink /\ ~cond_any THEN <<>> ELSE cond_shape
    IN  cshape # <<>> /\ cshape # a_shape

-----------------------------------------------------------------------------
(* dp_from_p *)

\* line 288 at one point: np.where(np.sign(ps - p_edge_below) > 0,
\*                                 dp_interior, dp_adj_sfc)
dp_where_flipped(ps_t, below, above) ==
    IF Sign(ps_t - below) < 0 THEN below - above ELSE ps_t - above

dp_where(ps_t, below, above) ==
    IF Sign(ps_t - below) > 0 THEN below - above ELSE ps_t - above

\* line 290 at one point: the condition ps < p
mask_cond(ps_t, p_k) == ps_t < p_k

\* The layer edges of converted level pressures P (lines 275-280)
p_edges(P) ==
    <<Fx(BottomEdgePa)>>
      \o [k \in 1..(Len(P) - 1) |-> Half(P[k] + P[k + 1])]
      \o <<Fx(TopEdgePa)>>

\* p is 1-D with N levels, ps is 3-D (T, 1, 1).  The result is
\* [ret: what the call returns or raises, p, ps: the arguments after the
\*  in-place to_pascal, dp: the local dp of line 288]
dp_from_p(p, ps, shrink) ==
    LET P == to_pascal(p)
        N == Len(P)
        T == Len(ps)
        p_shape == IndexNewSliceNewNew(<<N>>)
        edges == p_edges(P)
        p_edge_above == From1(edges)
        p_edge_below == ButLast(edges)
        edge_shape == <<1, N, 1, 1>>
        dp_interior_shape == Broadcast(edge_shape, edge_shape)
        PS == to_pascal(ps)
        ps_shape == IndexSliceNewSliceSlice(<<T, 1, 1>>)
        dp_adj_sfc_shape == Broadcast(ps_shape, IndexNewSliceNewNew(edge_shape))
        where_cond_shape == Broadcast(ps_shape, edge_shape)
        dp_shape == Broadcast(Broadcast(where_cond_shape, dp_interior_shape),
                              dp_adj_sfc_shape)
        dp == [t \in 1..T |-> [k \in 1..N |->
                  dp_where(PS[t], p_edge_below[k], p_edge_above[k])]]
        mask == [t \in 1..T |-> [k \in 1..N |-> mask_cond(PS[t], P[k])]]
        mask_shape == Broadcast(ps_shape, p_shape)
        mask_any == \E t \in 1..T : \E k \in 1..N : mask[t][k]
    IN  [ret |-> IF masked_where_raises(mask_shape, mask_any, dp_shape, shrink)
                   THEN [kind |-> "IndexError", shape |-> <<>>,
                         a |-> <<>>, mask |-> <<>>]
                   ELSE [kind |-> "masked_array", shape |-> dp_shape,
                         a |-> dp, mask |-> mask],
         dp |-> dp, p |-> P, ps |-> PS]

-----------------------------------------------------------------------------
(* The numeric calls: inputs and actions *)

\* Level pressures a caller passes: 8, 200, 850, 1000 (read as hPa when the
\* array's largest magnitude is below 1200) and 100000 (Pa)
LevVals == {Fx(8), Fx(200), Fx(850), Fx(1000), Fx(100000)}

\* Surface pressures: 850, 1000, 1013.25 and 1150 hPa, and 101325 Pa
SfcVals == {Fx(850), Fx(1000), Fx(1013) + 1, Fx(1150), Fx(101325)}

\* Boundary values for phalf_from_pfull (the default 0, and another)
BoundaryVals == {0, Fx(1000)}

Fields == UNION {[1..n -> LevVals] : n \in 1..MaxLev}
Sfcs == UNION {[1..n -> SfcVals] : n \in 1..MaxPts}

Reverse(a) == [k \in 1..Len(a) |-> a[Len(a) + 1 - k]]

\* The caller's array taken as half-level data: 3-D (level, lat, lon), or 4-D
\* (time, level, lat, lon) with one or two times
HalfInput(nd, times) ==
    IF nd = 4
      THEN Arr(4, IF times = 2 THEN <<field, Reverse(field)>> ELSE <<field>>)
      ELSE Arr(nd, field)

NoOut == [kind |-> "none", a |-> <<>>]
Raised(e) == [kind |-> e, a |-> <<>>]
Returned(a) == [kind |-> "ndarray", a |-> a]

\* A call is made on the caller's array as it was built or as to_pascal left
\* it.  The functions read nothing but their arguments, and the only change
\* they make to them is to_pascal's, so no other order of calls gives a call
\* an argument these do not.
CallerHoldsField == op \in {"none", "to_pascal"}

NumIdle ==
    /\ op = "none" /\ arg = <<>> /\ out = NoOut /\ frame = <<>>

ToPascal ==
    /\ CallerHoldsField
    /\ field' = to_pascal(field)
    /\ op' = "to_pascal"
    /\ arg' = [x |-> field]
    /\ out' = Returned(to_pascal(field))
    /\ frame' = <<>>
    /\ UNCHANGED attrvars

\* p = to_pascal(p) changes the caller's array; p[1] of a one-element array
\* raises IndexError
LevelThickness ==
    /\ CallerHoldsField
    /\ field' = to_pascal(field)
    /\ op' = "level_thickness"
    /\ arg' = [p |-> field]
    /\ out' = IF Len(field) >= 2 THEN Returned(level_thickness(field))
              ELSE Raised("IndexError")
    /\ frame' = <<>>
    /\ UNCHANGED attrvars

\* shrink: whether the numpy in use shrinks an all-False mask to nomask
DpFromP ==
    /\ CallerHoldsField
    /\ \E ps \in Sfcs, shrink \in BOOLEAN :
        \E r \in {dp_from_p(field, ps, shrink)} :
            /\ field' = r.p
            /\ op' = "dp_from_p"
            /\ arg' = [p |-> field, ps |-> ps, shrink |-> shrink]
            /\ out' = r.ret
            /\ frame' = [p |-> r.p, ps |-> r.ps, dp |-> r.dp]
            /\ UNCHANGED attrvars

PhalfFromPfull ==
    /\ CallerHoldsField
    /\ \E val_toa \in BoundaryVals, val_sfc \in BoundaryVals :
        /\ op' = "phalf_from_pfull"
        /\ arg' = [pfull |-> Arr(3, field),
                   val_toa |-> val_toa, val_sfc |-> val_sfc]
        /\ out' = Returned(phalf_from_pfull(Arr(3, field), val_toa, val_sfc))
        /\ frame' = <<>>
        /\ UNCHANGED <<field, attrvars>>

\* pfull_from_phalf(phalf_from_pfull(x, val_toa, val_sfc)): the call on what
\* phalf_from_pfull just returned; arg stays that of phalf_from_pfull
PfullFromPhalfFromPfull ==
    /\ op = "phalf_from_pfull"
    /\ op' = "pfull_from_phalf_from_pfull"
    /\ arg' = arg
    /\ out' = Returned(pfull_from_phalf(out.a))
    /\ frame' = <<>>
    /\ UNCHANGED <<field, attrvars>>

PfullFromPhalf ==
    /\ CallerHoldsField
    /\ \E nd \in {3, 4}, times \in {1, 2} :
        /\ op' = "pfull_from_phalf"
        /\ arg' = [phalf |-> HalfInput(nd, times)]
        /\ out' = Returned(pfull_from_phalf(HalfInput(nd, times)))
        /\ frame' = <<>>
        /\ UNCHANGED <<field, attrvars>>

DpFromPhalf ==
    /\ CallerHoldsField
    /\ \E nd \in {3, 4}, times \in {1, 2} :
        /\ op' = "dp_from_phalf"
        /\ arg' = [phalf |-> HalfInput(nd, times)]
        /\ out' = Returned(dp_from_phalf(HalfInput(nd, times)))
        /\ frame' = <<>>
        /\ UNCHANGED <<field, attrvars>>

-----------------------------------------------------------------------------
(* get_parent_attr *)

\* The object the call is made on and two more.  Any call on an object of a
\* graph of three objects is this call on a renaming of the graph.
Objs == {"obj", "a", "b"}

\* line 39, in its order
Rels == <<"parent", "var", "run", "model", "proj">>

\* An object's own value of the attribute: not set ("absent"), a falsy scalar
\* (0, None, ''), a truthy scalar, an array of several zeros, an array of
\* several elements not all zero
AttrKinds == {"absent", "falsy", "truthy", "zeros", "nonzero"}

Slots == Objs \X {Rels[i] : i \in DOMAIN Rels}
Graphs ==
    UNION {[S -> Objs] : S \in {S \in SUBSET Slots : Cardinality(S) <= MaxLinks}}

\* getattr(obj, name, False) of a relation attribute or of the attribute
getattr_rel(o, r) == IF <<o, r>> \in DOMAIN links THEN links[<<o, r>>] ELSE "False"
getattr_attr(o) == IF attrs[o] = "absent" THEN "False" ELSE attrs[o]

\* bool(obj), which raises ValueError on an array of several elements, and
\* then obj.any()
robust_bool(v) ==
    IF v \in {"zeros", "nonzero"} THEN v = "nonzero" ELSE v = "truthy"

\* lines 39-42: the first relation, in the order of Rels, whose value is
\* truthy (an object); "False" when there is none
RECURSIVE first_parent_from(_, _)
first_parent_from(o, i) ==
    IF i > Len(Rels) THEN "False"
    ELSE IF getattr_rel(o, Rels[i]) # "False" THEN getattr_rel(o, Rels[i])
    ELSE first_parent_from(o, i + 1)

first_parent(o) == first_parent_from(o, 1)

\* line 42: the object the recursive call is made on
recurse_on_self(obj, parent_obj) == obj

recurse_on(obj, parent_obj) == parent_obj

NoResult == [kind |-> "none", val |-> "none", from |-> "none"]

AttrIdle ==
    /\ start = "none" /\ strict = FALSE /\ pc = "idle" /\ cur = "none"
    /\ calls = 0 /\ result = NoResult

Call ==
    /\ pc = "idle"
    /\ \E s \in BOOLEAN :
        /\ strict' = s
        /\ start' = "obj"
        /\ cur' = "obj"
        /\ calls' = 1
        /\ pc' = "call"
    /\ UNCHANGED <<result, links, attrs, numvars>>

\* One frame of get_parent_attr(cur, attr, strict): it returns, raises, or
\* returns what the frame it enters returns
Frame ==
    /\ pc = "call"
    /\ LET attr_val == getattr_attr(cur)
           parent_obj == first_parent(cur)
       IN  IF robust_bool(attr_val)
             THEN /\ result' = [kind |-> "return", val |-> attr_val, from |-> cur]
                  /\ pc' = "done"
                  /\ UNCHANGED <<cur, calls>>
           ELSE IF parent_obj # "False"
             THEN IF calls = RecursionLimit
                    THEN /\ result' = [kind |-> "RecursionError",
                                       val |-> "none", from |-> cur]
                         /\ pc' = "done"
                         /\ UNCHANGED <<cur, calls>>
                    ELSE /\ cur' = recurse_on(cur, parent_obj)
                         /\ calls' = calls + 1
                         /\ UNCHANGED <<pc, result>>
           ELSE /\ result' = IF strict
                               THEN [kind |-> "AttributeError",
                                     val |-> "none", from |-> cur]
                               ELSE [kind |-> "return",
                                     val |-> "None", from |-> cur]
                /\ pc' = "done"
                /\ UNCHANGED <<cur, calls>>
    /\ UNCHANGED <<start, strict, links, attrs, numvars>>

-----------------------------------------------------------------------------
(* The specifications *)

Init ==
    /\ field \in Fields
    /\ NumIdle
    /\ links = <<>>
    /\ attrs = [o \in Objs |-> "absent"]
    /\ AttrIdle

Next ==
    \/ ToPascal
    \/ LevelThickness
    \/ DpFromP
    \/ PhalfFromPfull
    \/ PfullFromPhalfFromPfull
    \/ PfullFromPhalf
    \/ DpFromPhalf

Spec == Init /\ [][Next]_vars

InitAttr ==
    /\ field = <<Fx(1000)>>
    /\ NumIdle
    /\ links \in Graphs
    /\ attrs \in [Objs -> AttrKinds]
    /\ AttrIdle

NextAttr ==
    \/ Call
    \/ Frame

SpecAttr == InitAttr /\ [][NextAttr]_vars

-----------------------------------------------------------------------------
(* Properties of the numeric functions *)

StrictlyDecreasing(a) == \A k \in 1..(Len(a) - 1) : a[k] > a[k + 1]

\* Edge k of the layers of level pressures P (in Pa): 110000 Pa below the
\* first level, 0 Pa above the last, the midpoint of the adjacent levels between
LayerEdge(P, k) ==
    IF k = 1 THEN Fx(BottomEdgePa)
    ELSE IF k = Len(P) + 1 THEN Fx(TopEdgePa)
    ELSE (P[k - 1] + P[k]) \div 2

\* C1: when some level pressure p[level] is greater than the surface pressure
\* ps at some time (both converted to Pa), dp_from_p returns an array whose
\* point (time, level) is masked exactly where p[level] > ps, and so is not
\* masked where p[level] <= ps.
C1_MaskedWhereLevelBelowSurface ==
    LET P == to_pascal(arg.p)
        PS == to_pascal(arg.ps)
    IN  ( /\ op = "dp_from_p"
          /\ \E t \in DOMAIN PS : \E k \in DOMAIN P : P[k] > PS[t] )
        => /\ out.kind = "masked_array"
           /\ \A t \in DOMAIN PS : \A k \in DOMAIN P :
                  out.mask[t][k] = (P[k] > PS[t])

\* C2: for strictly decreasing levels and a surface pressure with
\* p[0] <= ps <= 1100 hPa, dp_from_p masks no layer, the bottom layer is
\* ps minus its upper edge, every other layer is its lower edge minus its
\* upper edge, and the layers of a column sum to ps (in Pa).
C2_ColumnSumsToSurfacePressure ==
    LET P == to_pascal(arg.p)
        PS == to_pascal(arg.ps)
    IN  ( /\ op = "dp_from_p"
          /\ StrictlyDecreasing(P)
          /\ \A t \in DOMAIN PS : P[1] <= PS[t] /\ PS[t] <= Fx(BottomEdgePa) )
        => /\ out.kind = "masked_array"
           /\ \A t \in DOMAIN PS :
                /\ \A k \in DOMAIN P : ~out.mask[t][k]
                /\ \A k \in DOMAIN P :
                       out.a[t][k] = (IF k = 1 THEN PS[t] ELSE LayerEdge(P, k))
                                       - LayerEdge(P, k + 1)
                /\ SumSeq(out.a[t]) = PS[t]

\* C3 (as stated): for strictly decreasing p of at least two levels,
\* level_thickness returns as many thicknesses as levels and they sum to
\* 1100 hPa - 0 hPa = 110000 Pa.
C3_ThicknessSumsTo1100hPa ==
    (op = "level_thickness" /\ Len(arg.p) >= 2 /\ StrictlyDecreasing(arg.p))
    => /\ out.kind = "ndarray"
       /\ Len(out.a) = Len(arg.p)
       /\ SumSeq(out.a) = Fx(1100 * HPaToPa) - Fx(0)

\* C3 (amended): for strictly decreasing p of at least two levels,
\* level_thickness returns as many thicknesses as levels and they sum to the
\* bottom level p[0] in Pa (the bottom layer starts at p[0], not at 1100 hPa).
C3_ThicknessSumsToBottomLevel ==
    (op = "level_thickness" /\ Len(arg.p) >= 2 /\ StrictlyDecreasing(arg.p))
    => /\ out.kind = "ndarray"
       /\ Len(out.a) = Len(arg.p)
       /\ SumSeq(out.a) = to_pascal(arg.p)[1]

C3_Witness ==
    /\ op = "level_thickness"
    /\ arg.p = <<Fx(1000), Fx(850), Fx(200)>>
    /\ out.kind = "ndarray"
    /\ SumSeq(out.a) = Fx(100000)

\* C4 (as stated): pfull_from_phalf(phalf_from_pfull(x, 0, 0)) has as many
\* levels as x and equals x at every level but the first and the last.
C4_RoundTripKeepsInterior ==
    (op = "pfull_from_phalf_from_pfull" /\ arg.val_toa = 0 /\ arg.val_sfc = 0)
    => LET x == arg.pfull.a
           y == out.a.a
       IN  /\ Len(y) = Len(x)
           /\ \A k \in 2..(Len(x) - 1) : y[k] = x[k]

\* C4 (amended): pfull_from_phalf(phalf_from_pfull(x, 0, 0)) has as many
\* levels as x, and at every level k but the first and the last it is
\* 0.25*x[k-1] + 0.5*x[k] + 0.25*x[k+1]; it equals x[k] there exactly when x[k]
\* is the mean of its two neighbours.
C4_RoundTripSmoothsInterior ==
    (op = "pfull_from_phalf_from_pfull" /\ arg.val_toa = 0 /\ arg.val_sfc = 0)
    => LET x == arg.pfull.a
           y == out.a.a
       IN  /\ Len(y) = Len(x)
           /\ \A k \in 2..(Len(x) - 1) :
                /\ 4 * y[k] = x[k - 1] + 2 * x[k] + x[k + 1]
                /\ (y[k] = x[k]) <=> (2 * x[k] = x[k - 1] + x[k + 1])

C4_Witness ==
    /\ op = "pfull_from_phalf_from_pfull"
    /\ arg.val_toa = 0 /\ arg.val_sfc = 0
    /\ arg.pfull.a = <<Fx(1000), Fx(850), Fx(200)>>
    /\ out.a.a[2] # Fx(850)

\* The half-level array of the call and what dp_from_phalf returned, as the
\* sequence over time of columns (a single column when the array is not 4-D)
C5_Columns(x) == IF x.ndim = 4 THEN x.a ELSE <<x.a>>

\* C5 (as stated): dp_from_phalf returns N layers for N+1 half levels along
\* the vertical axis (axis 1 of a 4-D array, axis 0 otherwise), and layer k is
\* phalf[k] - phalf[k+1].
C5_ThicknessIsLowerIndexMinusHigher ==
    op = "dp_from_phalf" =>
        LET h == C5_Columns(arg.phalf)
            d == C5_Columns(out.a)
        IN  /\ out.a.ndim = arg.phalf.ndim
            /\ Len(d) = Len(h)
            /\ \A t \in DOMAIN h :
                 /\ Len(d[t]) = Len(h[t]) - 1
                 /\ \A k \in DOMAIN d[t] : d[t][k] = h[t][k] - h[t][k + 1]

\* C5 (amended): dp_from_phalf returns N layers for N+1 half levels along the
\* vertical axis (axis 1 of a 4-D array, axis 0 otherwise), and layer k is
\* phalf[k+1] - phalf[k].
C5_ThicknessIsHigherIndexMinusLower ==
    op = "dp_from_phalf" =>
        LET h == C5_Columns(arg.phalf)
            d == C5_Columns(out.a)
        IN  /\ out.a.ndim = arg.phalf.ndim
            /\ Len(d) = Len(h)
            /\ \A t \in DOMAIN h :
                 /\ Len(d[t]) = Len(h[t]) - 1
                 /\ \A k \in DOMAIN d[t] : d[t][k] = h[t][k + 1] - h[t][k]

C5_Witness ==
    /\ op = "dp_from_phalf"
    /\ arg.phalf.ndim = 4
    /\ arg.phalf.a = << <<Fx(200), Fx(850), Fx(1000)>>,
                        <<Fx(1000), Fx(850), Fx(200)>> >>
    /\ out.a.a = << <<Fx(650), Fx(150)>>, <<Fx(-150), Fx(-650)>> >>

\* C6 (as stated): after to_pascal(x) a second call changes nothing.
C6_ToPascalIdempotent ==
    op = "to_pascal" => to_pascal(out.a) = out.a

\* C6 (amended): after to_pascal(x) a second call changes nothing when
\* 100 * max|x| >= 1200 or x is all zeros; when 0 < max|x| < 12 the second call
\* multiplies by 100 again.
C6_ToPascalIdempotentFrom12 ==
    op = "to_pascal" =>
        IF MaxAbs(arg.x) * HPaToPa >= Fx(PaThreshold) \/ MaxAbs(arg.x) = 0
          THEN to_pascal(out.a) = out.a
          ELSE /\ to_pascal(out.a) = [i \in DOMAIN out.a |-> out.a[i] * HPaToPa]
               /\ to_pascal(out.a) # out.a

C6_Witness ==
    /\ op = "to_pascal"
    /\ arg.x = <<Fx(1000), Fx(8)>>
    /\ out.a = <<Fx(100000), Fx(800)>>
    /\ to_pascal(out.a) = out.a

-----------------------------------------------------------------------------
(* Properties of get_parent_attr *)

\* The object's own value of the attribute is truthy
Truthy(o) == attrs[o] \in {"truthy", "nonzero"}

\* The objects an object's relation attributes name
Targets(o) == {links[s] : s \in {s \in DOMAIN links : s[1] = o}}

RECURSIVE ReachableFrom(_)
ReachableFrom(S) ==
    LET N == S \cup UNION {Targets(o) : o \in S}
    IN  IF N = S THEN S ELSE ReachableFrom(N)

Acyclic == \A o \in Objs : o \notin ReachableFrom(Targets(o))

\* The search C7 describes: the object itself, then what its relations name,
\* in the order parent, var, run, model, proj, each searched the same way;
\* the first object found with a truthy value, or "none"
RECURSIVE C7_Search(_, _), C7_SearchRels(_, _, _)
C7_Search(o, seen) ==
    IF Truthy(o) THEN o ELSE C7_SearchRels(o, 1, seen \cup {o})
C7_SearchRels(o, i, seen) ==
    IF i > Len(Rels) THEN "none"
    ELSE LET t == getattr_rel(o, Rels[i])
         IN  IF t = "False" \/ t \in seen THEN C7_SearchRels(o, i + 1, seen)
             ELSE LET f == C7_Search(t, seen)
                  IN  IF f # "none" THEN f ELSE C7_SearchRels(o, i + 1, seen)

\* C7: get_parent_attr returns the object's own value when it is truthy, and
\* otherwise the first truthy value found by searching what the relations
\* parent, var, run, model, proj name, in that order, recursively; so whenever
\* an object reachable through the relations has a truthy value, the call
\* returns a truthy value and not None.
C7_ReturnsFirstTruthyAncestorValue ==
    pc = "done" =>
        LET f == C7_Search(start, {})
        IN  f # "none" =>
                result = [kind |-> "return", val |-> attrs[f], from |-> f]

\* C8: get_parent_attr raises AttributeError exactly when strict is set and
\* neither the object nor any object reachable through the relations has a
\* truthy value; with strict=False it raises nothing, and it returns None
\* when there is no match.
C8_RaisesOnlyStrictWithoutMatch ==
    pc = "done" =>
        LET match == \E o \in ReachableFrom({start}) : Truthy(o)
        IN  /\ (result.kind = "AttributeError") <=> (strict /\ ~match)
            /\ ~strict => result.kind = "return"
            /\ (~strict /\ ~match) => result.val = "None"

=============================================================================
